---- MODULE Spec2Model ----
(***************************************************************************)
(* liteorm: reflection-driven SQL generation (sql.go), marshaling and the   *)
(* database facade (reflection.go), with the PostgreSQL server behind the   *)
(* pgx connection modelled as far as the facade's statements exercise it.   *)
(*                                                                          *)
(* Go strings that the code inspects or assembles (field names, tags,       *)
(* column lists, placeholder lists) are sequences of one-character strings, *)
(* so that lower-casing, integer parsing, integer formatting and splitting  *)
(* at commas are computed, not assumed.  A statement is the record of the   *)
(* arguments of its fmt.Sprintf call; the format string is fixed by "op".   *)
(***************************************************************************)
EXTENDS Integers, Sequences, FiniteSets, TLC

\* ------------------------------------------------------------- bounds
\* Longest record type (number of fields) drawn for the statement builders.
MaxFields == 2
\* Largest startIndex handed to buildUpdateStatement.
MaxStart == 2
\* Most rows kept in the table.
MaxRows == 2
\* Insert is not taken once the id sequence has handed out MaxSerial values.
MaxSerial == 2

\* ------------------------------------------------------------ strings
Upper ==
  <<"A","B","C","D","E","F","G","H","I","J","K","L","M",
    "N","O","P","Q","R","S","T","U","V","W","X","Y","Z">>

Lower ==
  <<"a","b","c","d","e","f","g","h","i","j","k","l","m",
    "n","o","p","q","r","s","t","u","v","w","x","y","z">>

Digits == <<"0","1","2","3","4","5","6","7","8","9">>

\* strings.ToLower, one character.
ToLowerChar(c) ==
  IF \E i \in DOMAIN Upper : Upper[i] = c
  THEN Lower[CHOOSE i \in DOMAIN Upper : Upper[i] = c]
  ELSE c

\* strings.ToLower.
ToLower(s) == [i \in 1..Len(s) |-> ToLowerChar(s[i])]

IsDigit(c) == \E i \in DOMAIN Digits : Digits[i] = c

DigitVal(c) == (CHOOSE i \in DOMAIN Digits : Digits[i] = c) - 1

RECURSIVE DecVal(_)
\* The number a sequence of decimal digits denotes.
DecVal(s) ==
  IF s = <<>> THEN 0
  ELSE DecVal(SubSeq(s, 1, Len(s) - 1)) * 10 + DigitVal(s[Len(s)])

\* strconv.Atoi: an optional sign, then at least one decimal digit.
Atoi(s) ==
  LET signed == s # <<>> /\ Head(s) \in {"+", "-"}
      body   == IF signed THEN Tail(s) ELSE s
  IN  IF body = <<>> \/ \E i \in DOMAIN body : ~IsDigit(body[i])
      THEN [err |-> TRUE, val |-> 0]
      ELSE [err |-> FALSE,
            val |-> IF Head(s) = "-" THEN 0 - DecVal(body) ELSE DecVal(body)]

RECURSIVE NatDigits(_)
NatDigits(n) ==
  IF n < 10 THEN <<Digits[n + 1]>>
  ELSE NatDigits(n \div 10) \o <<Digits[(n % 10) + 1]>>

\* fmt.Sprintf("%d", n).
Itoa(n) == IF n < 0 THEN <<"-">> \o NatDigits(0 - n) ELSE NatDigits(n)

RECURSIVE Split(_, _)
\* The pieces of s between occurrences of the character sep (how the server reads
\* a list); an empty piece marks a leading, trailing or doubled separator.
Split(s, sep) ==
  IF \A i \in DOMAIN s : s[i] # sep
  THEN <<s>>
  ELSE LET p == CHOOSE i \in DOMAIN s :
                  s[i] = sep /\ \A j \in 1..(i - 1) : s[j] # sep
       IN  <<SubSeq(s, 1, p - 1)>> \o Split(SubSeq(s, p + 1, Len(s)), sep)

\* ------------------------------------------------------- record types
\* reflect.Kind of a field's type, with the element kind of a slice and the
\* qualified name of a struct.
Kinds == {"int", "int64", "string", "time.Time", "[]uint8", "[]int", "bool",
          "other.Struct"}

ID == <<"I", "D">>

NumField(argt) == Len(argt.Fields)

\* reflect.StructTag.Get: the tag's value, empty when the key is absent.
TagGet(field, key) == IF key = "pglen" THEN field.pglen ELSE field.pgsql

Nil == "nil"

\* ------------------------------------------------------ reflection.go
idColumnType == <<"b","i","g","s","e","r","i","a","l">>

getLengthTag(field) ==
  LET stag == TagGet(field, "pglen")
      conv == Atoi(stag)
  IN  IF stag = <<>>
      THEN [err |-> "len tag not present", val |-> 0]
      ELSE IF conv.err
      THEN [err |-> "len tag cannot be converted to int", val |-> 0]
      ELSE [err |-> Nil, val |-> conv.val]

mapColumnType(field) ==
  CASE field.Kind = "int" ->
         [err |-> Nil, val |-> <<"i","n","t">>]
    [] field.Kind = "int64" ->
         [err |-> Nil, val |-> <<"b","i","g","i","n","t">>]
    [] field.Kind = "string" ->
         LET lenTag == getLengthTag(field)
         IN  IF lenTag.err # Nil
             THEN [err |-> lenTag.err, val |-> <<>>]
             ELSE [err |-> Nil,
                   val |-> <<"v","a","r","c","h","a","r","(">>
                             \o Itoa(lenTag.val) \o <<")">>]
    [] field.Kind = "time.Time" ->
         [err |-> Nil, val |-> <<"t","i","m","e","s","t","a","m","p">>]
    [] field.Kind = "other.Struct" ->
         [err |-> "unsupported struct type", val |-> <<>>]
    [] field.Kind = "[]uint8" ->
         [err |-> Nil, val |-> <<"b","y","t","e","a">>]
    [] field.Kind = "[]int" ->
         [err |-> "unsupported slice kind", val |-> <<>>]
    [] OTHER ->
         [err |-> "unsupported field kind", val |-> <<>>]

\* getObjectValue: a struct, or a pointer to one (dereferenced); arg.kind is
\* "ptr", "struct" or "other".
getObjectValue(arg) ==
  IF arg.kind \in {"ptr", "struct"}
  THEN [err |-> Nil, addressable |-> arg.kind = "ptr"]
  ELSE [err |-> "provided argument is not a struct or pointer to struct",
        addressable |-> FALSE]

\* getObjectType, same shapes.
getObjectType(arg) ==
  IF arg.kind \in {"ptr", "struct"}
  THEN [err |-> Nil, val |-> arg.type]
  ELSE [err |-> "provided argument is not a pointer", val |-> arg.type]

\* reflect.Value.FieldByName("ID"): the index of the field, 0 when there is none.
FieldByNameID(argt) ==
  IF \E i \in 1..NumField(argt) : argt.Fields[i].Name = ID
  THEN CHOOSE i \in 1..NumField(argt) : argt.Fields[i].Name = ID
  ELSE 0

\* The kinds reflect.Value.SetInt and reflect.Value.Int accept.
IntKinds == {"int", "int64"}

\* setIDValue; obj is the caller's object afterwards.
setIDValue(arg, value) ==
  LET argv    == getObjectValue(arg)
      idField == FieldByNameID(arg.type)
  IN  IF argv.err # Nil
      THEN [err |-> argv.err, obj |-> arg.obj]
      ELSE IF idField = 0 \/ ~argv.addressable
      THEN [err |-> "could not set the ID field after inserting the object",
            obj |-> arg.obj]
      ELSE IF arg.type.Fields[idField].Kind \notin IntKinds
      THEN [err |-> "panic", obj |-> arg.obj]
      ELSE [err |-> Nil, obj |-> [arg.obj EXCEPT ![idField] = value]]

getIDValue(arg) ==
  LET argv    == getObjectValue(arg)
      idField == FieldByNameID(arg.type)
  IN  IF argv.err # Nil
      THEN [err |-> argv.err, val |-> 0 - 1]
      ELSE IF idField = 0
      THEN [err |-> "could not set the ID field after inserting the object",
            val |-> 0 - 1]
      ELSE IF arg.type.Fields[idField].Kind \notin IntKinds
      THEN [err |-> "panic", val |-> 0 - 1]
      ELSE [err |-> Nil, val |-> arg.obj[idField]]

\* buildSliceFromFields: one fresh slot per field, in declaration order; a slot
\* is known by the kind of value it takes.
buildSliceFromFields(argt) == [i \in 1..NumField(argt) |-> argt.Fields[i].Kind]

\* setObjectFields; values are the scanned slots' contents, obj the object
\* afterwards.  reflect.Value.Set panics on a struct passed by value.
setObjectFields(arg, values) ==
  LET argv == getObjectValue(arg)
  IN  IF argv.err # Nil
      THEN [err |-> argv.err, obj |-> arg.obj]
      ELSE IF Len(values) # NumField(arg.type)
      THEN [err |-> "mismatch between number of fields and number of values",
            obj |-> arg.obj]
      ELSE IF NumField(arg.type) > 0 /\ ~argv.addressable
      THEN [err |-> "panic", obj |-> arg.obj]
      ELSE [err |-> Nil, obj |-> [i \in 1..NumField(arg.type) |-> values[i]]]

\* fmt.Sprintf("%ss", strings.ToLower(t.Name())).
BuildTableName(t) == ToLower(t.Name) \o <<"s">>

\* ------------------------------------------------------------- sql.go
RECURSIVE createLoop(_, _, _)
\* The loop of buildCreateStatement from field i on; sqlStatement is the text
\* accumulated after "create table <name> (".
createLoop(argt, i, sqlStatement) ==
  IF i > NumField(argt)
  THEN [err |-> Nil, val |-> sqlStatement]
  ELSE LET field      == argt.Fields[i]
           columnName == ToLower(field.Name)
           mapped     == mapColumnType(field)
           columnType == IF columnName = <<"i","d">> THEN idColumnType
                         ELSE mapped.val
           pgsqlTag   == TagGet(field, "pgsql")
           clause     == columnName \o <<" ">> \o columnType \o <<" ">> \o pgsqlTag
           comma      == IF i < NumField(argt) THEN <<",">> ELSE <<>>
       IN  IF columnName # <<"i","d">> /\ mapped.err # Nil
           THEN [err |-> mapped.err, val |-> <<>>]
           ELSE createLoop(argt, i + 1, sqlStatement \o clause \o comma)

\* fmt.Sprintf("create table %s (", tableName) + columns + ");"
buildCreateStatement(argt) ==
  LET built == createLoop(argt, 1, <<>>)
  IN  IF built.err # Nil
      THEN [err |-> built.err, val |-> [op |-> "none"]]
      ELSE [err |-> Nil,
            val |-> [op |-> "create", table |-> BuildTableName(argt),
                     columns |-> built.val]]

RECURSIVE selectLoop(_, _, _)
selectLoop(argt, i, columnNames) ==
  IF i > NumField(argt)
  THEN columnNames
  ELSE LET comma == IF i < NumField(argt) THEN <<",">> ELSE <<>>
       IN  selectLoop(argt, i + 1,
                      columnNames \o ToLower(argt.Fields[i].Name) \o comma)

\* fmt.Sprintf("select %s from %s %s;", columnNames, tableName, clauses)
buildSelectStatement(argt, clauses) ==
  [op |-> "select", columnNames |-> selectLoop(argt, 1, <<>>),
   table |-> BuildTableName(argt), clauses |-> clauses]

RECURSIVE insertLoop(_, _, _, _, _)
insertLoop(argt, i, columnNames, valueIndices, nextIdx) ==
  IF i > NumField(argt)
  THEN [columnNames |-> columnNames, valueIndices |-> valueIndices]
  ELSE LET field == argt.Fields[i]
           comma == IF i < NumField(argt) THEN <<",">> ELSE <<>>
       IN  IF field.Name = ID
           THEN insertLoop(argt, i + 1, columnNames, valueIndices, nextIdx)
           ELSE insertLoop(argt, i + 1,
                           columnNames \o ToLower(field.Name) \o comma,
                           valueIndices \o <<"$">> \o Itoa(nextIdx) \o comma,
                           nextIdx + 1)

\* fmt.Sprintf("insert into %s (%s) values (%s) returning id;", ...)
buildInsertStatement(argt) ==
  LET built == insertLoop(argt, 1, <<>>, <<>>, 1)
  IN  [op |-> "insert", table |-> BuildTableName(argt),
       columnNames |-> built.columnNames, valueIndices |-> built.valueIndices]

RECURSIVE updateLoop(_, _, _, _)
updateLoop(argt, i, set, nextIdx) ==
  IF i > NumField(argt)
  THEN [set |-> set, nextIdx |-> nextIdx]
  ELSE LET field == argt.Fields[i]
           comma == IF i < NumField(argt) THEN <<",">> ELSE <<>>
       IN  IF field.Name = ID
           THEN updateLoop(argt, i + 1, set, nextIdx)
           ELSE updateLoop(argt, i + 1,
                           set \o field.Name \o <<" ","="," ","$">>
                               \o Itoa(nextIdx) \o comma,
                           nextIdx + 1)

\* fmt.Sprintf("update %s set %s %s;", tableName, set, clauses), nextIdx
buildUpdateStatement(argt, clauses, nextIdx) ==
  LET built == updateLoop(argt, 1, <<>>, nextIdx)
  IN  [stmt |-> [op |-> "update", table |-> BuildTableName(argt),
                 set |-> built.set, clauses |-> clauses],
       nextIdx |-> built.nextIdx]

RECURSIVE valuesLoop(_, _, _)
valuesLoop(arg, i, values) ==
  IF i > NumField(arg.type)
  THEN values
  ELSE IF arg.type.Fields[i].Name = ID
  THEN valuesLoop(arg, i + 1, values)
  ELSE valuesLoop(arg, i + 1, Append(values, arg.obj[i]))

buildStatementValues(arg) ==
  IF getObjectValue(arg).err # Nil
  THEN [err |-> getObjectValue(arg).err, val |-> <<>>]
  ELSE [err |-> Nil, val |-> valuesLoop(arg, 1, <<>>)]

\* buildDeleteStatement with the clause left out of the statement.
buildDeleteStatementNoClause(argt, clauses) ==
  [op |-> "delete", table |-> BuildTableName(argt), clauses |-> ""]

\* fmt.Sprintf("delete from %s %s;", tableName, clauses)
buildDeleteStatement(argt, clauses) ==
  [op |-> "delete", table |-> BuildTableName(argt), clauses |-> clauses]

\* --------------------------------------- the server behind pgx.Conn
\* One table is kept: the one every record type of this model maps to.
\* columns: <<[name, serial, pk]>> in creation order; rows: sequences of values
\* aligned with columns; serial: the last value the id sequence handed out.
NoTable ==
  [exists |-> FALSE, name |-> <<>>, columns |-> <<>>, rows |-> <<>>, serial |-> 0]

\* SQL NULL.
Null == 0 - 1

WhereID == "where id = $1"

NonEmpty(w) == w # <<>>

IsPlaceholder(ph) ==
  /\ Len(ph) >= 2
  /\ ph[1] = "$"
  /\ \A i \in 2..Len(ph) : IsDigit(ph[i])
  /\ DecVal(Tail(ph)) >= 1

PhIndex(ph) == DecVal(Tail(ph))

IsColumnType(t) ==
  \/ t \in {<<"i","n","t">>, <<"b","i","g","i","n","t">>, idColumnType,
            <<"t","i","m","e","s","t","a","m","p">>, <<"b","y","t","e","a">>}
  \/ /\ Len(t) > 9
     /\ SubSeq(t, 1, 8) = <<"v","a","r","c","h","a","r","(">>
     /\ t[Len(t)] = ")"
     /\ \A i \in 9..(Len(t) - 1) : IsDigit(t[i])
     /\ DecVal(SubSeq(t, 9, Len(t) - 1)) >= 1

\* One column clause of a create statement: "<name> <type> <constraint>".
ParseColumn(clause) ==
  LET words == Split(clause, " ")
      rest  == SelectSeq(SubSeq(words, 3, Len(words)), NonEmpty)
  IN  IF Len(words) < 2
      THEN [ok |-> FALSE, name |-> <<>>, serial |-> FALSE, pk |-> FALSE]
      ELSE [ok     |-> /\ words[1] # <<>>
                       /\ IsColumnType(words[2])
                       /\ rest \in {<<>>, << <<"p","r","i","m","a","r","y">>,
                                              <<"k","e","y">> >>},
            name   |-> words[1],
            serial |-> words[2] = idColumnType,
            pk     |-> rest # <<>>]

Distinct(seq) == \A i, j \in DOMAIN seq : seq[i] = seq[j] => i = j

HasColumn(db, name) == \E i \in DOMAIN db.columns : db.columns[i].name = name

ColumnIndex(db, name) == CHOOSE i \in DOMAIN db.columns : db.columns[i].name = name

IndexIn(seq, x) == CHOOSE i \in DOMAIN seq : seq[i] = x

\* No two rows agree on a primary-key column, and none is NULL there.
KeysUnique(columns, rows) ==
  \A c \in DOMAIN columns :
    columns[c].pk =>
      /\ \A i, j \in DOMAIN rows : rows[i][c] = rows[j][c] => i = j
      /\ \A i \in DOMAIN rows : rows[i][c] # Null

\* Conn.Exec of "drop table if exists <name> cascade;"
ExecDrop(db, name) ==
  [err |-> Nil, db |-> IF db.exists /\ db.name = name THEN NoTable ELSE db]

\* Conn.Exec of a create statement.
ExecCreate(db, stmt) ==
  LET clauses == IF stmt.columns = <<>> THEN <<>> ELSE Split(stmt.columns, ",")
      cols    == [i \in DOMAIN clauses |-> ParseColumn(clauses[i])]
  IN  IF \E i \in DOMAIN cols : ~cols[i].ok
      THEN [err |-> "driver: syntax error", db |-> db]
      ELSE IF db.exists /\ db.name = stmt.table
      THEN [err |-> "driver: relation already exists", db |-> db]
      ELSE IF \/ ~Distinct([i \in DOMAIN cols |-> cols[i].name])
              \/ Cardinality({i \in DOMAIN cols : cols[i].pk}) > 1
      THEN [err |-> "driver: invalid table definition", db |-> db]
      ELSE [err |-> Nil,
            db  |-> [exists |-> TRUE, name |-> stmt.table,
                     columns |-> [i \in DOMAIN cols |->
                                    [name |-> cols[i].name,
                                     serial |-> cols[i].serial,
                                     pk |-> cols[i].pk]],
                     rows |-> <<>>, serial |-> 0]]

\* The rows a trailing clause selects: every row for the empty clause, the rows
\* whose id column equals the first argument for "where id = $1".
Matches(db, clauses, args) ==
  IF clauses = WhereID
  THEN {i \in DOMAIN db.rows : db.rows[i][ColumnIndex(db, <<"i","d">>)] = args[1]}
  ELSE DOMAIN db.rows

\* Whether the server accepts the clause with these arguments on this table.
ClauseError(db, clauses, args) ==
  IF clauses = ""
  THEN IF Len(args) = 0 THEN Nil ELSE "driver: wrong number of arguments"
  ELSE IF clauses = WhereID
  THEN IF Len(args) # 1 THEN "driver: wrong number of arguments"
       ELSE IF ~HasColumn(db, <<"i","d">>) THEN "driver: column id does not exist"
       ELSE Nil
  ELSE "driver: syntax error"

\* Conn.QueryRow of an insert statement with its values, then Scan(&lastID).
QueryRowInsert(db, stmt, values) ==
  LET cols == Split(stmt.columnNames, ",")
      phs  == Split(stmt.valueIndices, ",")
      row  == [c \in DOMAIN db.columns |->
                IF \E j \in DOMAIN cols : cols[j] = db.columns[c].name
                THEN values[PhIndex(phs[IndexIn(cols, db.columns[c].name)])]
                ELSE IF db.columns[c].serial THEN db.serial + 1
                ELSE Null]
      drew == \E c \in DOMAIN db.columns :
                /\ db.columns[c].serial
                /\ \A j \in DOMAIN cols : cols[j] # db.columns[c].name
      next == [db EXCEPT !.serial = IF drew THEN @ + 1 ELSE @]
  IN  IF \/ \E j \in DOMAIN cols : cols[j] = <<>>
         \/ \E j \in DOMAIN phs : ~IsPlaceholder(phs[j])
      THEN [err |-> "driver: syntax error", db |-> db, id |-> 0]
      ELSE IF ~(db.exists /\ db.name = stmt.table)
      THEN [err |-> "driver: relation does not exist", db |-> db, id |-> 0]
      ELSE IF \/ Len(cols) # Len(phs)
              \/ ~Distinct(cols)
              \/ \E j \in DOMAIN cols : ~HasColumn(db, cols[j])
              \/ ~HasColumn(db, <<"i","d">>)
      THEN [err |-> "driver: invalid insert", db |-> db, id |-> 0]
      ELSE IF {PhIndex(phs[j]) : j \in DOMAIN phs} # 1..Len(values)
      THEN [err |-> "driver: wrong number of arguments", db |-> db, id |-> 0]
      ELSE IF ~KeysUnique(db.columns, Append(db.rows, row))
      THEN [err |-> "driver: constraint violated", db |-> next, id |-> 0]
      ELSE [err |-> Nil,
            db  |-> [next EXCEPT !.rows = Append(@, row)],
            id  |-> row[ColumnIndex(db, <<"i","d">>)]]

\* One assignment of an update's set list: "<name> = $<k>".
ParseAssign(item) ==
  LET words == Split(item, " ")
  IN  IF Len(words) = 3 /\ words[1] # <<>> /\ words[2] = <<"=">>
         /\ IsPlaceholder(words[3])
      THEN [ok |-> TRUE, name |-> ToLower(words[1]), idx |-> PhIndex(words[3])]
      ELSE [ok |-> FALSE, name |-> <<>>, idx |-> 0]

\* Conn.Exec of an update statement; n is CommandTag.RowsAffected.
ExecUpdate(db, stmt, values) ==
  LET items == Split(stmt.set, ",")
      asg   == [i \in DOMAIN items |-> ParseAssign(items[i])]
      used  == {asg[i].idx : i \in DOMAIN asg}
                 \cup (IF stmt.clauses = WhereID THEN {1} ELSE {})
      hit   == Matches(db, stmt.clauses, values)
      rows  == [r \in DOMAIN db.rows |->
                 IF r \notin hit THEN db.rows[r]
                 ELSE [c \in DOMAIN db.columns |->
                        IF \E i \in DOMAIN asg : asg[i].name = db.columns[c].name
                        THEN values[asg[CHOOSE i \in DOMAIN asg :
                                          asg[i].name = db.columns[c].name].idx]
                        ELSE db.rows[r][c]]]
  IN  IF \/ \E i \in DOMAIN asg : ~asg[i].ok
         \/ stmt.clauses \notin {"", WhereID}
      THEN [err |-> "driver: syntax error", db |-> db, n |-> 0]
      ELSE IF ~(db.exists /\ db.name = stmt.table)
      THEN [err |-> "driver: relation does not exist", db |-> db, n |-> 0]
      ELSE IF \/ \E i \in DOMAIN asg : ~HasColumn(db, asg[i].name)
              \/ ~Distinct([i \in DOMAIN asg |-> asg[i].name])
              \/ (stmt.clauses = WhereID /\ ~HasColumn(db, <<"i","d">>))
      THEN [err |-> "driver: invalid update", db |-> db, n |-> 0]
      ELSE IF used # 1..Len(values)
      THEN [err |-> "driver: wrong number of arguments", db |-> db, n |-> 0]
      ELSE IF ~KeysUnique(db.columns, rows)
      THEN [err |-> "driver: constraint violated", db |-> db, n |-> 0]
      ELSE [err |-> Nil, db |-> [db EXCEPT !.rows = rows],
            n |-> Cardinality(hit)]

\* The subsequence of seq at the indices outside drop.
RECURSIVE Without(_, _, _)
Without(seq, drop, i) ==
  IF i > Len(seq) THEN <<>>
  ELSE (IF i \in drop THEN <<>> ELSE <<seq[i]>>) \o Without(seq, drop, i + 1)

\* Conn.Exec of a delete statement; n is CommandTag.RowsAffected.
ExecDelete(db, stmt, args) ==
  IF stmt.clauses \notin {"", WhereID}
  THEN [err |-> "driver: syntax error", db |-> db, n |-> 0]
  ELSE IF ~(db.exists /\ db.name = stmt.table)
  THEN [err |-> "driver: relation does not exist", db |-> db, n |-> 0]
  ELSE IF ClauseError(db, stmt.clauses, args) # Nil
  THEN [err |-> ClauseError(db, stmt.clauses, args), db |-> db, n |-> 0]
  ELSE LET hit == Matches(db, stmt.clauses, args)
       IN  [err |-> Nil,
            db  |-> [db EXCEPT !.rows = Without(db.rows, hit, 1)],
            n   |-> Cardinality(hit)]

\* Conn.Query / Conn.QueryRow of a select statement: the selected rows, each the
\* values of the listed columns in the order listed.
Query(db, stmt, args) ==
  LET cols == Split(stmt.columnNames, ",")
  IN  IF \/ \E j \in DOMAIN cols : cols[j] = <<>>
         \/ stmt.clauses \notin {"", WhereID}
      THEN [err |-> "driver: syntax error", rows |-> <<>>]
      ELSE IF ~(db.exists /\ db.name = stmt.table)
      THEN [err |-> "driver: relation does not exist", rows |-> <<>>]
      ELSE IF \E j \in DOMAIN cols : ~HasColumn(db, cols[j])
      THEN [err |-> "driver: column does not exist", rows |-> <<>>]
      ELSE IF ClauseError(db, stmt.clauses, args) # Nil
      THEN [err |-> ClauseError(db, stmt.clauses, args), rows |-> <<>>]
      ELSE LET hit  == Matches(db, stmt.clauses, args)
               kept == Without(db.rows, DOMAIN db.rows \ hit, 1)
           IN  [err  |-> Nil,
                rows |-> [r \in DOMAIN kept |->
                           [j \in DOMAIN cols |->
                              kept[r][ColumnIndex(db, cols[j])]]]]

\* Rows.Scan / Row.Scan into the slots: positional, one value per slot.
Scan(row, slots) ==
  IF Len(row) # Len(slots)
  THEN [err |-> "driver: wrong number of scan targets", val |-> <<>>]
  ELSE IF \E i \in DOMAIN row : row[i] = Null /\ slots[i] # "[]uint8"
  THEN [err |-> "driver: cannot scan NULL", val |-> <<>>]
  ELSE [err |-> Nil, val |-> row]

\* ---------------------------------------------- reflection.go: Database
\* Each method is an operator from the table before the call to the error
\* returned, the table afterwards and what the caller receives.

\* CreateTable without the drop statement.
CreateTableNeverDrops(db, t, dropExisting) ==
  LET built   == buildCreateStatement(t)
      created == ExecCreate(db, built.val)
  IN  IF built.err # Nil THEN [err |-> built.err, db |-> db]
      ELSE [err |-> created.err, db |-> created.db]

CreateTable(db, t, dropExisting) ==
  LET tableName == BuildTableName(t)
      dropped   == IF dropExisting THEN ExecDrop(db, tableName)
                   ELSE [err |-> Nil, db |-> db]
      built     == buildCreateStatement(t)
      created   == ExecCreate(dropped.db, built.val)
  IN  IF dropped.err # Nil THEN [err |-> dropped.err, db |-> dropped.db]
      ELSE IF built.err # Nil THEN [err |-> built.err, db |-> dropped.db]
      ELSE IF created.err # Nil THEN [err |-> created.err, db |-> created.db]
      ELSE [err |-> Nil, db |-> created.db]

\* obj is the caller's object after the call.  The error of setIDValue is not
\* assigned, so the test after it reads the nil left by Scan.
Insert(db, arg) ==
  LET argt      == getObjectType(arg)
      statement == buildInsertStatement(argt.val)
      values    == buildStatementValues(arg)
      scanned   == QueryRowInsert(db, statement, values.val)
      set       == setIDValue(arg, scanned.id)
  IN  IF argt.err # Nil THEN [err |-> argt.err, db |-> db, obj |-> arg.obj]
      ELSE IF values.err # Nil THEN [err |-> values.err, db |-> db, obj |-> arg.obj]
      ELSE IF scanned.err # Nil
      THEN [err |-> scanned.err, db |-> scanned.db, obj |-> arg.obj]
      ELSE IF set.err = "panic"
      THEN [err |-> "panic", db |-> scanned.db, obj |-> arg.obj]
      ELSE [err |-> Nil, db |-> scanned.db, obj |-> set.obj]

SelectOne(db, arg, clauses, args) ==
  LET argt         == getObjectType(arg)
      statement    == buildSelectStatement(argt.val, clauses)
      row          == Query(db, statement, args)
      columnValues == buildSliceFromFields(argt.val)
      scanned      == Scan(row.rows[1], columnValues)
      set          == setObjectFields(arg, scanned.val)
  IN  IF argt.err # Nil THEN [err |-> argt.err, obj |-> arg.obj]
      ELSE IF row.err # Nil THEN [err |-> row.err, obj |-> arg.obj]
      ELSE IF row.rows = <<>>
      THEN [err |-> "driver: no rows in result set", obj |-> arg.obj]
      ELSE IF scanned.err # Nil THEN [err |-> scanned.err, obj |-> arg.obj]
      ELSE [err |-> set.err, obj |-> set.obj]

\* result: the objects built from the rows, in the order the server returns them.
Select(db, t, clauses, args) ==
  LET statement == buildSelectStatement(t, clauses)
      rows      == Query(db, statement, args)
      newelem   == [kind |-> "ptr", type |-> t, obj |-> [i \in 1..NumField(t) |-> 0]]
      elems     == [r \in DOMAIN rows.rows |->
                      LET scanned == Scan(rows.rows[r], buildSliceFromFields(t))
                      IN  IF scanned.err # Nil
                          THEN [err |-> scanned.err, obj |-> <<>>]
                          ELSE setObjectFields(newelem, scanned.val)]
  IN  IF rows.err # Nil THEN [err |-> rows.err, result |-> <<>>]
      ELSE IF \E r \in DOMAIN elems : elems[r].err # Nil
      THEN [err |-> elems[CHOOSE r \in DOMAIN elems : elems[r].err # Nil].err,
            result |-> <<>>]
      ELSE [err |-> Nil, result |-> [r \in DOMAIN elems |-> elems[r].obj]]

UpdateOne(db, arg) ==
  LET argt      == getObjectType(arg)
      statement == buildUpdateStatement(argt.val, WhereID, 2).stmt
      values    == buildStatementValues(arg)
      id        == getIDValue(arg)
      tag       == ExecUpdate(db, statement, <<id.val>> \o values.val)
  IN  IF argt.err # Nil THEN [err |-> argt.err, db |-> db]
      ELSE IF values.err # Nil THEN [err |-> values.err, db |-> db]
      ELSE IF id.err # Nil THEN [err |-> id.err, db |-> db]
      ELSE IF tag.err # Nil THEN [err |-> tag.err, db |-> tag.db]
      ELSE IF tag.n # 1
      THEN [err |-> "incorrect number of rows affected after updating the object",
            db |-> tag.db]
      ELSE [err |-> Nil, db |-> tag.db]

Delete(db, t, clauses, args) ==
  LET statement == buildDeleteStatement(t, clauses)
      tag       == ExecDelete(db, statement, args)
  IN  IF tag.err # Nil THEN [err |-> tag.err, db |-> tag.db, n |-> 0]
      ELSE [err |-> Nil, db |-> tag.db, n |-> tag.n]

\* ------------------------------------------------------------- inputs
F(name, kind, pglen, pgsql) ==
  [Name |-> name, Kind |-> kind, pglen |-> pglen, pgsql |-> pgsql]

PrimaryKey == <<"p","r","i","m","a","r","y"," ","k","e","y">>

Item == <<"I","t","e","m">>

\* The fields record types are drawn from: every kind mapColumnType tells
\* apart, the spellings of the identity field's name, and length tags that are
\* absent, positive, zero, negative and not a number.
FieldMenu ==
  { F(ID, "int64", <<>>, PrimaryKey),
    F(ID, "int64", <<>>, <<>>),
    F(ID, "string", <<>>, <<>>),
    F(<<"I","d">>, "int64", <<>>, <<>>),
    F(<<"A">>, "int", <<>>, <<>>),
    F(<<"B">>, "string", <<"2","5">>, <<>>),
    F(<<"B">>, "string", <<>>, <<>>),
    F(<<"B">>, "string", <<"0">>, <<>>),
    F(<<"B">>, "string", <<"-","5">>, <<>>),
    F(<<"B">>, "string", <<"x">>, <<>>),
    F(<<"C","c">>, "int64", <<>>, <<>>),
    F(<<"T">>, "time.Time", <<>>, <<>>),
    F(<<"D">>, "[]uint8", <<>>, <<>>),
    F(<<"E">>, "[]int", <<>>, <<>>),
    F(<<"G">>, "bool", <<>>, <<>>),
    F(<<"H">>, "other.Struct", <<>>, <<>>) }

\* Sequences of at most n fields with distinct names (a struct's field names
\* are distinct).
RECURSIVE FieldSeqs(_)
FieldSeqs(n) ==
  IF n = 0 THEN {<<>>}
  ELSE LET shorter == FieldSeqs(n - 1)
       IN  shorter \cup
           {Append(fs, f) : fs \in {x \in shorter : Len(x) = n - 1}, f \in FieldMenu}

BuilderTypes ==
  {[Name |-> Item, Fields |-> fs] :
     fs \in {x \in FieldSeqs(MaxFields) :
               \A i, j \in DOMAIN x : x[i].Name = x[j].Name => i = j}}

\* The record types used with the facade.
FacadeTypes ==
  {[Name |-> Item, Fields |-> fs] : fs \in
     { <<F(ID, "int64", <<>>, PrimaryKey), F(<<"A">>, "int", <<>>, <<>>)>>,
       <<F(ID, "int64", <<>>, <<>>), F(<<"A">>, "int", <<>>, <<>>)>>,
       <<F(<<"A">>, "int", <<>>, <<>>), F(ID, "int64", <<>>, PrimaryKey)>>,
       <<F(<<"A">>, "int", <<>>, <<>>), F(ID, "int64", <<>>, PrimaryKey),
         F(<<"B">>, "string", <<"2","5">>, <<>>)>>,
       <<F(ID, "int64", <<>>, PrimaryKey), F(<<"B">>, "string", <<"2","5">>, <<>>)>>,
       <<F(ID, "int64", <<>>, PrimaryKey), F(<<"B">>, "string", <<>>, <<>>)>>,
       <<F(ID, "int64", <<>>, PrimaryKey), F(<<"B">>, "string", <<"0">>, <<>>)>>,
       <<F(<<"I","d">>, "int64", <<>>, <<>>), F(<<"A">>, "int", <<>>, <<>>)>>,
       <<F(<<"A">>, "int", <<>>, <<>>)>> }}

\* No code path inspects the value of a field other than ID, so two values are
\* enough to tell fields and rows apart; ID ranges over every identity the
\* sequence can hand out, and 0 (unset).
Vals == {0, 1}

Objects(t) ==
  {o \in [1..NumField(t) -> Vals \cup 0..MaxSerial] :
     \A i \in 1..NumField(t) : o[i] \in Vals \/ t.Fields[i].Name = ID}

\* What a caller may pass where a record is expected: a pointer to a record, a
\* record by value, or something that is neither.
Args(t) ==
  {[kind |-> k, type |-> t, obj |-> o] : k \in {"ptr", "struct"}, o \in Objects(t)}
    \cup {[kind |-> "other", type |-> t, obj |-> <<>>]}

\* What a caller passes for SelectOne to fill: a fresh record.
Targets(t) ==
  {[kind |-> k, type |-> t, obj |-> [i \in 1..NumField(t) |-> 0]] :
     k \in {"ptr", "struct"}}
    \cup {[kind |-> "other", type |-> t, obj |-> <<>>]}

\* Trailing clauses with their arguments.
Clauses ==
  {[clauses |-> "", args |-> <<>>]}
    \cup {[clauses |-> WhereID, args |-> <<i>>] : i \in 0..MaxSerial}

\* -------------------------------------------------------------- state
VARIABLES
  typ,   \* the record type the program works with
  db,    \* the table on the server
  ret    \* the last call: its name, its inputs and what it returned

vars == <<typ, db, ret>>

\* The tables an earlier run may have left behind for typ: none, or the table
\* created from a version of the record type with the same column names.
EarlierTables(t) ==
  {NoTable} \cup
  {CreateTable(NoTable, prev, FALSE).db :
     prev \in {x \in FacadeTypes :
                /\ CreateTable(NoTable, x, FALSE).err = Nil
                /\ NumField(x) = NumField(t)
                /\ \A i \in 1..NumField(x) :
                     ToLower(x.Fields[i].Name) = ToLower(t.Fields[i].Name)}}

Init ==
  /\ typ \in FacadeTypes
  /\ db \in EarlierTables(typ)
  /\ ret = [op |-> "none"]

DoCreateTable ==
  \E dropExisting \in BOOLEAN :
    LET r == CreateTable(db, typ, dropExisting)
    IN  /\ db' = r.db
        /\ ret' = [op |-> "CreateTable", dropExisting |-> dropExisting,
                   existed |-> db.exists, held |-> Len(db.rows), err |-> r.err]
        /\ UNCHANGED typ

DoInsert ==
  /\ Len(db.rows) < MaxRows
  /\ db.serial < MaxSerial
  /\ \E arg \in Args(typ) :
       LET r == Insert(db, arg)
       IN  /\ db' = r.db
           /\ ret' = [op |-> "Insert", arg |-> arg, err |-> r.err, obj |-> r.obj]
           /\ UNCHANGED typ

DoSelectOne ==
  \E arg \in Targets(typ), c \in Clauses :
    LET r == SelectOne(db, arg, c.clauses, c.args)
    IN  /\ ret' = [op |-> "SelectOne", arg |-> arg, clauses |-> c.clauses,
                   args |-> c.args, err |-> r.err, obj |-> r.obj]
        /\ UNCHANGED <<typ, db>>

DoSelect ==
  \E c \in Clauses :
    LET r == Select(db, typ, c.clauses, c.args)
    IN  /\ ret' = [op |-> "Select", clauses |-> c.clauses, args |-> c.args,
                   err |-> r.err, result |-> r.result]
        /\ UNCHANGED <<typ, db>>

DoUpdateOne ==
  \E arg \in Args(typ) :
    LET r == UpdateOne(db, arg)
    IN  /\ db' = r.db
        /\ ret' = [op |-> "UpdateOne", arg |-> arg, err |-> r.err]
        /\ UNCHANGED typ

DoDelete ==
  \E c \in Clauses :
    LET r == Delete(db, typ, c.clauses, c.args)
    IN  /\ db' = r.db
        /\ ret' = [op |-> "Delete", clauses |-> c.clauses, args |-> c.args,
                   err |-> r.err, n |-> r.n]
        /\ UNCHANGED typ

Next ==
  \/ DoCreateTable
  \/ DoInsert
  \/ DoSelectOne
  \/ DoSelect
  \/ DoUpdateOne
  \/ DoDelete

Spec == Init /\ [][Next]_vars

\* The table of the record type t is there.
TableOf(t) == db.exists /\ db.name = BuildTableName(t)

\* A fresh record of type t, passed by pointer.
Fresh(t) == [kind |-> "ptr", type |-> t, obj |-> [i \in 1..NumField(t) |-> 0]]

\* The value a row of table d holds in its id column.
RowID(d, row) == row[ColumnIndex(d, <<"i","d">>)]

\* ----------------------------------------- the statement builders alone
\* The builders are pure: they are applied to every record type of at most
\* MaxFields fields drawn from FieldMenu.
BuilderInit ==
  /\ typ \in BuilderTypes
  /\ db = NoTable
  /\ ret = [op |-> "none"]

CallBuildCreate ==
  /\ ret' = [op |-> "buildCreateStatement", out |-> buildCreateStatement(typ)]
  /\ UNCHANGED <<typ, db>>

CallBuildSelect ==
  /\ \E clauses \in {"", WhereID} :
       ret' = [op |-> "buildSelectStatement", clauses |-> clauses,
               out |-> buildSelectStatement(typ, clauses)]
  /\ UNCHANGED <<typ, db>>

CallBuildInsert ==
  /\ ret' = [op |-> "buildInsertStatement", out |-> buildInsertStatement(typ)]
  /\ UNCHANGED <<typ, db>>

CallBuildUpdate ==
  /\ \E clauses \in {"", WhereID}, k \in 1..MaxStart :
       ret' = [op |-> "buildUpdateStatement", clauses |-> clauses, nextIdx |-> k,
               out |-> buildUpdateStatement(typ, clauses, k)]
  /\ UNCHANGED <<typ, db>>

CallBuildValues ==
  /\ \E arg \in Args(typ) :
       ret' = [op |-> "buildStatementValues", arg |-> arg,
               out |-> buildStatementValues(arg)]
  /\ UNCHANGED <<typ, db>>

CallBuildDelete ==
  /\ \E clauses \in {"", WhereID} :
       ret' = [op |-> "buildDeleteStatement", clauses |-> clauses,
               out |-> buildDeleteStatement(typ, clauses)]
  /\ UNCHANGED <<typ, db>>

BuilderNext ==
  \/ CallBuildCreate
  \/ CallBuildSelect
  \/ CallBuildInsert
  \/ CallBuildUpdate
  \/ CallBuildValues
  \/ CallBuildDelete

BuilderSpec == BuilderInit /\ [][BuilderNext]_vars

\* ------------------------------------------------------------- claims
RECURSIVE Join(_, _)
\* The pieces, with sep between neighbours.
Join(pieces, sep) ==
  IF pieces = <<>> THEN <<>>
  ELSE IF Len(pieces) = 1 THEN pieces[1]
  ELSE pieces[1] \o <<sep>> \o Join(Tail(pieces), sep)

RECURSIVE NonIdentityFrom(_, _)
\* The indices, in declaration order from i on, of the fields not named ID.
NonIdentityFrom(t, i) ==
  IF i > NumField(t) THEN <<>>
  ELSE (IF t.Fields[i].Name = ID THEN <<>> ELSE <<i>>) \o NonIdentityFrom(t, i + 1)

NonIdentity(t) == NonIdentityFrom(t, 1)

\* The column clauses of a built create statement, each split into its words.
CreateClauses(stmt) ==
  IF stmt.columns = <<>> THEN <<>>
  ELSE LET clauses == Split(stmt.columns, ",")
       IN  [i \in DOMAIN clauses |-> Split(clauses[i], " ")]

\* The constraint text of a column clause: what follows "<name> <type> ".
ConstraintText(words) == Join(SubSeq(words, 3, Len(words)), " ")

\* C1: in a built create statement there is one column clause per field, in
\* declaration order, named by the lower-cased field name; the clause has type
\* bigserial and constraint text "primary key" exactly when the field is named
\* "ID", and every other field has the type mapped from its value type.
C1_IdentityColumnIffNamedID ==
  (ret.op = "buildCreateStatement" /\ ret.out.err = Nil) =>
    LET clauses == CreateClauses(ret.out.val)
    IN  /\ Len(clauses) = NumField(typ)
        /\ \A i \in 1..NumField(typ) :
             LET field == typ.Fields[i]
                 words == clauses[i]
             IN  /\ Len(words) >= 3
                 /\ words[1] = ToLower(field.Name)
                 /\ (field.Name = ID) <=>
                      (words[2] = idColumnType /\ ConstraintText(words) = PrimaryKey)
                 /\ field.Name # ID =>
                      (mapColumnType(field).err = Nil
                        /\ words[2] = mapColumnType(field).val)

\* C2: the insert statement lists exactly the lower-cased names of the fields
\* not named ID, in declaration order, separated by single commas, against the
\* placeholders $1..$n; buildStatementValues returns those fields' values in
\* the same order.
C2_InsertListsNonIdentityFields ==
  LET idx == NonIdentity(typ)
  IN  /\ ret.op = "buildInsertStatement" =>
           /\ ret.out.table = ToLower(typ.Name) \o <<"s">>
           /\ ret.out.columnNames =
                Join([j \in DOMAIN idx |-> ToLower(typ.Fields[idx[j]].Name)], ",")
           /\ ret.out.valueIndices =
                Join([j \in DOMAIN idx |-> <<"$">> \o Itoa(j)], ",")
      /\ (ret.op = "buildStatementValues" /\ ret.out.err = Nil) =>
           ret.out.val = [j \in DOMAIN idx |-> ret.arg.obj[idx[j]]]

\* C3: the update statement assigns the fields not named ID, in declaration
\* order, the placeholders $k, $k+1, ..., $k+n-1 with single commas between the
\* assignments and none after the last, carries the clause unchanged, and
\* returns k+n.
C3_UpdateAssignsConsecutivePlaceholders ==
  ret.op = "buildUpdateStatement" =>
    LET idx   == NonIdentity(typ)
        k     == ret.nextIdx
        items == IF ret.out.stmt.set = <<>> THEN <<>>
                 ELSE Split(ret.out.stmt.set, ",")
    IN  /\ Len(items) = Len(idx)
        /\ \A j \in DOMAIN idx :
             ParseAssign(items[j]) =
               [ok |-> TRUE, name |-> ToLower(typ.Fields[idx[j]].Name),
                idx |-> k + j - 1]
        /\ ret.out.stmt.clauses = ret.clauses
        /\ ret.out.nextIdx = k + Len(idx)

\* A length tag that is a positive integer.
PositiveLengthTag(field) ==
  /\ field.pglen # <<>>
  /\ ~Atoi(field.pglen).err
  /\ Atoi(field.pglen).val >= 1

\* C10: for a string field that is not the identity column, building the create
\* statement fails unless the field's length tag is a positive integer N, and
\* then the column's type is varchar(N).
C10_LengthTagMustBePositive ==
  ret.op = "buildCreateStatement" =>
    \A i \in 1..NumField(typ) :
      LET field == typ.Fields[i]
      IN  (field.Kind = "string" /\ ToLower(field.Name) # <<"i","d">>) =>
            /\ ~PositiveLengthTag(field) => ret.out.err # Nil
            /\ ret.out.err = Nil =>
                 CreateClauses(ret.out.val)[i][2] =
                   <<"v","a","r","c","h","a","r","(">>
                     \o Itoa(Atoi(field.pglen).val) \o <<")">>

UnexpectedRowCount == "incorrect number of rows affected after updating the object"

\* C4: UpdateOne on a record whose ID matches no stored row returns the
\* unexpected-row-count error and leaves the table unchanged; on a record whose
\* ID matches a stored row it succeeds, leaves every other row unchanged, and a
\* select by that ID then returns the record's non-identity field values.
C4_UpdateOneChangesExactlyItsRow ==
  [][(/\ ret'.op = "UpdateOne"
      /\ ret'.arg.kind \in {"ptr", "struct"}
      /\ FieldByNameID(typ) # 0
      /\ TableOf(typ)) =>
        LET x   == ret'.arg.obj
            id  == x[FieldByNameID(typ)]
            hit == {r \in DOMAIN db.rows : RowID(db, db.rows[r]) = id}
            sel == SelectOne(db', Fresh(typ), WhereID, <<id>>)
        IN  IF hit = {}
            THEN ret'.err = UnexpectedRowCount /\ db' = db
            ELSE /\ ret'.err = Nil
                 /\ Len(db'.rows) = Len(db.rows)
                 /\ \A r \in DOMAIN db.rows \ hit : db'.rows[r] = db.rows[r]
                 /\ sel.err = Nil
                 /\ \A j \in DOMAIN NonIdentity(typ) :
                      sel.obj[NonIdentity(typ)[j]] = x[NonIdentity(typ)[j]]]_vars

\* C5: a successful Insert appends one row and leaves the others, and the
\* caller's record then carries that row's identity in its ID field; the
\* identity is positive, is not the identity of a stored row, and is above the
\* last value the sequence handed out (so it is no identity of an earlier row
\* of this table, deleted or not).
C5_InsertAssignsFreshIdentity ==
  [][(ret'.op = "Insert" /\ ret'.err = Nil /\ FieldByNameID(typ) # 0) =>
        /\ Len(db'.rows) = Len(db.rows) + 1
        /\ SubSeq(db'.rows, 1, Len(db.rows)) = db.rows
        /\ LET id == RowID(db', db'.rows[Len(db'.rows)])
           IN  /\ ret'.obj[FieldByNameID(typ)] = id
               /\ id > 0
               /\ id > db.serial
               /\ \A r \in DOMAIN db.rows : RowID(db, db.rows[r]) # id]_vars

\* C6: Insert of a record it cannot write the identity to (passed by value, or
\* of a type with no field named ID) returns an error.
C6_InsertReportsUnsettableIdentity ==
  (ret.op = "Insert" /\ (ret.arg.kind # "ptr" \/ FieldByNameID(typ) = 0)) =>
    ret.err # Nil

\* C7: after a successful Insert of x, SelectOne and Select filtered by the
\* identity x carries return x, field for field.
C7_InsertSelectRoundTrip ==
  (ret.op = "Insert" /\ ret.err = Nil /\ FieldByNameID(typ) # 0) =>
    LET x    == ret.obj
        id   == x[FieldByNameID(typ)]
        one  == SelectOne(db, Fresh(typ), WhereID, <<id>>)
        many == Select(db, typ, WhereID, <<id>>)
    IN  /\ one.err = Nil
        /\ one.obj = x
        /\ many.err = Nil
        /\ many.result = <<x>>

RECURSIVE RemoveOne(_, _)
\* seq without the first occurrence of x.
RemoveOne(seq, x) ==
  IF seq = <<>> THEN <<>>
  ELSE IF Head(seq) = x THEN Tail(seq)
  ELSE <<Head(seq)>> \o RemoveOne(Tail(seq), x)

\* C8: where Select works, a Delete whose clause selects exactly one row returns
\* 1 and Select afterwards returns the previous rows without that row; a Delete
\* whose clause selects no row returns 0 and Select returns the same rows.
C8_DeleteRemovesExactlyTheMatchedRow ==
  [][ret'.op = "Delete" =>
       LET before  == Select(db, typ, "", <<>>)
           matched == Select(db, typ, ret'.clauses, ret'.args)
           after   == Select(db', typ, "", <<>>)
       IN  (before.err = Nil /\ matched.err = Nil) =>
             /\ Len(matched.result) = 1 =>
                  /\ ret'.err = Nil
                  /\ ret'.n = 1
                  /\ after.err = Nil
                  /\ after.result = RemoveOne(before.result, matched.result[1])
                  /\ Len(after.result) = Len(before.result) - 1
             /\ Len(matched.result) = 0 =>
                  /\ ret'.err = Nil
                  /\ ret'.n = 0
                  /\ after.err = Nil
                  /\ after.result = before.result]_vars

\* C8 witness: a Delete by identity removed one row and left another.
C8_Witness ==
  /\ ret.op = "Delete"
  /\ ret.clauses = WhereID
  /\ ret.err = Nil
  /\ ret.n = 1
  /\ Len(db.rows) >= 1

\* C9 as stated: on an existing table CreateTable without dropExisting returns
\* an error and leaves the table as it is, and with dropExisting succeeds and
\* leaves the table with no rows.
C9_AsStated ==
  [][(ret'.op = "CreateTable" /\ TableOf(typ)) =>
        IF ret'.dropExisting
        THEN ret'.err = Nil /\ db'.exists /\ db'.name = db.name /\ db'.rows = <<>>
        ELSE ret'.err # Nil /\ db' = db]_vars

\* A record type a table can be created for at all: its create statement
\* builds and the server accepts it.
Creatable(t) == CreateTable(NoTable, t, FALSE).err = Nil

\* C9 amended: as stated, the dropExisting case for the record types a table
\* can be created for.
C9_CreateTableOnExistingTable ==
  [][(ret'.op = "CreateTable" /\ TableOf(typ)) =>
        IF ret'.dropExisting
        THEN Creatable(typ) =>
               (ret'.err = Nil /\ db'.exists /\ db'.name = db.name
                  /\ db'.rows = <<>>)
        ELSE ret'.err # Nil /\ db' = db]_vars

\* C9 witness: CreateTable with dropExisting succeeded on a table that held
\* rows, and the table is empty.
C9_Witness ==
  /\ ret.op = "CreateTable"
  /\ ret.dropExisting
  /\ ret.existed
  /\ ret.held > 0
  /\ ret.err = Nil
  /\ db.exists
  /\ db.rows = <<>>

\* C11: when CreateTable returns an error because buildCreateStatement fails
\* for the record type, nothing has reached the server: an existing table and
\* its rows are as they were before the call, with dropExisting as without.
C11_FailedBuildLeavesTableUnchanged ==
  [][(/\ ret'.op = "CreateTable"
      /\ TableOf(typ)
      /\ buildCreateStatement(typ).err # Nil)
       => (ret'.err # Nil /\ db' = db)]_vars

====
